---- MODULE Spec2Model ----
(***************************************************************************)
(* Provider utilities of apps/sim: cost calculation, credential            *)
(* resolution, model -> provider resolution, forced-tool cycling and the   *)
(* OpenAI-compatible stream decoder.                                       *)
(*                                                                         *)
(* Each component is a specification of its own (SpecCost, SpecCred,       *)
(* SpecResolve, SpecTools, SpecStream) over the shared variables; the      *)
(* variables of the other components keep their initial value.             *)
(***************************************************************************)
EXTENDS Integers, Sequences, FiniteSets, TLC

VARIABLES
    costCall,            \* calculateCost: the last call (arguments and result)
    isHosted,            \* feature-flags.ts isHosted
    isServerKeysEnabled, \* feature-flags.ts isServerKeysEnabled
    storeOllama,         \* useProvidersStore.getState().providers.ollama.models
    storeVllm,           \* useProvidersStore.getState().providers.vllm.models
    byokRows,            \* workspaceBYOKKeys: the <<workspace, provider>> pairs with a row
    dbUp,                \* whether the database answers the BYOK query
    decryptOk,           \* whether decryptSecret succeeds
    poolOk,              \* whether getRotatingApiKey can hand out a key
    credCall,            \* getApiKeyWithBYOK / getApiKey: the last call
    providerModels,      \* providers[id].models, per provider
    blProviders,         \* env.BLACKLISTED_PROVIDERS, split on ','
    blModels,            \* env.BLACKLISTED_MODELS, split on ','
    resCall,             \* getProviderFromModel: the last call
    definitionModels,    \* PROVIDER_DEFINITIONS[id].models of the providers refreshed at run time
    pendingRefresh,      \* updateOpenRouterProviderModels calls waiting for their import
    observed,            \* getAllModelProviders: what the last reader saw
    provider,            \* tool loop: the provider id of the request
    tools,               \* tool loop: the tools argument (tool ids)
    providerTools,       \* tool loop: the descriptors (id, usageControl)
    policy,              \* tool loop: what prepareToolsWithUsageControl returned
    toolChoice,          \* tool loop: the tool choice threaded turn to turn
    usedForcedTools,     \* tool loop: the used list threaded turn to turn
    trackCall,           \* trackForcedToolUsage: the last call
    turns,               \* tool loop: the turns made with a tool forced, and whether one missed it
    vendor,              \* stream: the chunks the vendor stream will still yield
    vendorFails,         \* stream: the vendor iterator throws after the chunks
    streamPc,            \* stream: position of the start() callback
    streamState,         \* stream: state of the ReadableStream handed to the consumer
    readCount,           \* stream: how many enqueued deltas the consumer has read
    released,            \* stream: the vendor iterator's return() was called
    fullContent,         \* stream: accumulated content
    promptTokens,        \* stream: usage counters
    completionTokens,
    totalTokens,
    emitted,             \* stream: the deltas enqueued on the controller, in order
    completed,           \* stream: the onComplete calls made, in order
    taken                \* stream: the chunks taken from the vendor, in order

costVars == <<costCall>>
credVars == <<isHosted, isServerKeysEnabled, storeOllama, storeVllm, byokRows,
              dbUp, decryptOk, poolOk, credCall>>
resVars == <<providerModels, blProviders, blModels, resCall, definitionModels,
             pendingRefresh, observed>>
toolVars == <<provider, tools, providerTools, policy, toolChoice,
              usedForcedTools, trackCall, turns>>
streamVars == <<vendor, vendorFails, streamPc, streamState, readCount, released, fullContent, promptTokens,
                completionTokens, totalTokens, emitted, completed, taken>>
vars == <<costVars, credVars, resVars, toolVars, streamVars>>

NoCall == [op |-> "none"]

(***************************************************************************)
(* Strings are sequences of one-character strings, so that toLowerCase,   *)
(* startsWith and endsWith are computed and not assumed.                   *)
(***************************************************************************)
Upper == {"C", "M", "G", "B"}

toLowerChar(c) ==
    CASE c = "C" -> "c"
      [] c = "M" -> "m"
      [] c = "G" -> "g"
      [] c = "B" -> "b"
      [] OTHER -> c

toLowerCase(s) == [i \in 1..Len(s) |-> toLowerChar(s[i])]

startsWith(s, p) == Len(p) <= Len(s) /\ SubSeq(s, 1, Len(p)) = p

endsWith(s, p) == Len(p) <= Len(s) /\ SubSeq(s, Len(s) - Len(p) + 1, Len(s)) = p

includes(list, x) == \E i \in 1..Len(list) : list[i] = x

Range(list) == {list[i] : i \in 1..Len(list)}

(***************************************************************************)
(* Cost calculator.  Money is counted in units of 1e-8 dollar (the 8       *)
(* fractional digits of toFixed(8)); unit prices in thousandths of a       *)
(* dollar per million tokens; multipliers in tenths.  With these units a   *)
(* cost is tokens * price * multiplier / 100; it is kept as a whole part   *)
(* and a fraction in hundredths so that no product leaves 32 bits.         *)
(* Binary floating point error of the JavaScript arithmetic is not         *)
(* modelled: toFixed rounds the exact decimal value half up.               *)
(***************************************************************************)
MaxTokens == 3
Million == 1000000

TokenCounts == {i * 500 : i \in 0..MaxTokens} \cup {1, Million}
Multipliers == {0, 10, 15}   \* 0 stands for undefined, 10 for 1.0, 15 for 1.5
CostModels == {"gpt-4o", "text-embedding", "tiny", "unknown-model"}

NoPricing == [input |-> -1, cachedInput |-> 0, output |-> 0]

\* pricing tables of @/providers/models: unit prices per million tokens
getEmbeddingModelPricing(model) ==
    IF model = "text-embedding"
    THEN [input |-> 20, cachedInput |-> 0, output |-> 0]
    ELSE NoPricing

getModelPricingFromDefinitions(model) ==
    CASE model = "gpt-4o" -> [input |-> 2500, cachedInput |-> 1250, output |-> 5000]
      [] model = "tiny" -> [input |-> 75, cachedInput |-> 0, output |-> 303]
      [] OTHER -> NoPricing

defaultPricing == [input |-> 1000, cachedInput |-> 500, output |-> 5000]

\* tokens * (price / 1_000_000) * multiplier, exactly
times(tokens, rate) ==
    [whole |-> (tokens \div 100) * rate + ((tokens % 100) * rate) \div 100,
     frac |-> ((tokens % 100) * rate) % 100]

plus(a, b) ==
    [whole |-> a.whole + b.whole + (a.frac + b.frac) \div 100,
     frac |-> (a.frac + b.frac) % 100]

\* Number.parseFloat(x.toFixed(8))
toFixed8(x) == x.whole + (IF 2 * x.frac >= 100 THEN 1 ELSE 0)

\* the mutant: a multiplier that was not passed is not replaced by 1
orOne_NoDefault(multiplier) == multiplier

\* multiplier ?? 1
orOne(multiplier) == IF multiplier = 0 THEN 10 ELSE multiplier

calculateCost(model, prompt, completion, useCachedInput, inputMultiplier, outputMultiplier) ==
    LET embedding == getEmbeddingModelPricing(model)
        pricing == IF embedding # NoPricing THEN embedding
                   ELSE getModelPricingFromDefinitions(model)
    IN  IF pricing = NoPricing
        THEN [input |-> 0, output |-> 0, total |-> 0, pricing |-> defaultPricing]
        ELSE
          LET unit == IF useCachedInput /\ pricing.cachedInput # 0
                      THEN pricing.cachedInput ELSE pricing.input
              finalInputCost == times(prompt, unit * orOne(inputMultiplier))
              finalOutputCost == times(completion, pricing.output * orOne(outputMultiplier))
              finalTotalCost == plus(finalInputCost, finalOutputCost)
          IN  [input |-> toFixed8(finalInputCost),
               output |-> toFixed8(finalOutputCost),
               total |-> toFixed8(finalTotalCost),
               pricing |-> pricing]

CostArgs ==
    [op : {"args"}, model : CostModels, promptTokens : TokenCounts,
     completionTokens : TokenCounts, useCachedInput : BOOLEAN,
     inputMultiplier : Multipliers, outputMultiplier : Multipliers]

CalculateCost ==
    /\ costCall.op = "args"
    /\ costCall' = [model |-> costCall.model,
                    promptTokens |-> costCall.promptTokens,
                    completionTokens |-> costCall.completionTokens,
                    useCachedInput |-> costCall.useCachedInput,
                    inputMultiplier |-> costCall.inputMultiplier,
                    outputMultiplier |-> costCall.outputMultiplier,
                    op |-> "calculateCost",
                    result |-> calculateCost(costCall.model, costCall.promptTokens,
                                             costCall.completionTokens,
                                             costCall.useCachedInput,
                                             costCall.inputMultiplier,
                                             costCall.outputMultiplier)]
    /\ UNCHANGED <<credVars, resVars, toolVars, streamVars>>

(***************************************************************************)
(* Credential resolution.  A key is a tuple: <<"byok", workspace,          *)
(* provider>> a decrypted workspace key, <<"server", family>> a rotating   *)
(* server key, <<"user">> the caller's key, <<>> the empty string,         *)
(* <<"empty">> and <<"bedrock-uses-own-credentials">> the sentinels.       *)
(***************************************************************************)
MaxRows == 1

Undefined == <<"undefined">>
EmptyString == <<>>
UserKey == <<"user">>

\* model names; "b/" stands for the prefix "bedrock/"
GPT == <<"g", "p">>
GPTUpper == <<"G", "p">>
BedrockPrefix == <<"b", "/">>
BedrockModel == <<"b", "/", "c">>
OtherModel == <<"m", "x">>

CredProviders == {"ollama", "vllm", "bedrock", "openai", "anthropic", "google",
                  "mistral", "deepseek"}
CredModels == {GPT, GPTUpper, BedrockModel, OtherModel}
Workspaces == {<<"ws1">>, <<"ws2">>}
BYOKProviderIds == {"openai", "anthropic", "google", "mistral"}
UserKeys == {Undefined, EmptyString, UserKey}

\* the mutant: only a missing string is falsy, an empty one is not
truthy_EmptyIsTruthy(x) == x # Undefined

\* JavaScript truthiness of an optional string
truthy(x) == x # Undefined /\ x # EmptyString

\* getHostedModels() of @/providers/models
getHostedModels == <<GPT>>

\* getRotatingApiKey of @/lib/core/config/api-keys: a key of the family, or throws
getRotatingApiKey(family) ==
    IF poolOk THEN [threw |-> FALSE, key |-> <<"server", family>>]
    ELSE [threw |-> TRUE, key |-> Undefined]

Null == [found |-> FALSE, threw |-> FALSE, apiKey |-> Undefined, isBYOK |-> FALSE]

\* the mutant: the try / catch of getBYOKKey is missing, a failed query or
\* decryption rejects the promise
getBYOKKey_NoCatch(workspaceId, providerId) ==
    IF ~truthy(workspaceId) THEN Null
    ELSE IF ~dbUp THEN [Null EXCEPT !.threw = TRUE]
    ELSE IF <<workspaceId, providerId>> \notin byokRows THEN Null
    ELSE IF ~decryptOk THEN [Null EXCEPT !.threw = TRUE]
    ELSE [found |-> TRUE, threw |-> FALSE,
          apiKey |-> <<"byok", workspaceId, providerId>>, isBYOK |-> TRUE]

getBYOKKey(workspaceId, providerId) ==
    IF ~truthy(workspaceId) THEN Null
    ELSE IF ~dbUp THEN Null                                    \* query throws: caught
    ELSE IF <<workspaceId, providerId>> \notin byokRows THEN Null
    ELSE IF ~decryptOk THEN Null                               \* decryptSecret throws: caught
    ELSE [found |-> TRUE, threw |-> FALSE,
          apiKey |-> <<"byok", workspaceId, providerId>>, isBYOK |-> TRUE]

Returned(apiKey, isBYOK, byokQueried, poolAsked) ==
    [threw |-> FALSE, fell |-> FALSE, apiKey |-> apiKey, isBYOK |-> isBYOK, error |-> <<>>,
     byokQueried |-> byokQueried, poolAsked |-> poolAsked]

Threw(message, prov, model, byokQueried, poolAsked) ==
    [threw |-> TRUE, fell |-> FALSE, apiKey |-> Undefined, isBYOK |-> FALSE,
     error |-> <<message, prov, model>>,
     byokQueried |-> byokQueried, poolAsked |-> poolAsked]

\* control leaves the hosted block without a return
FellThrough(byokQueried) ==
    [threw |-> FALSE, fell |-> TRUE, apiKey |-> Undefined, isBYOK |-> FALSE, error |-> <<>>,
     byokQueried |-> byokQueried, poolAsked |-> FALSE]

\* an exception of an awaited call that nothing catches rejects the caller's promise
Rejected ==
    [threw |-> TRUE, fell |-> FALSE, apiKey |-> Undefined, isBYOK |-> FALSE,
     error |-> <<"BYOK lookup failed">>, byokQueried |-> TRUE, poolAsked |-> FALSE]

isModelHostedIn(hostedModels, model) ==
    \E i \in 1..Len(hostedModels) : toLowerCase(hostedModels[i]) = toLowerCase(model)

\* the mutant: on a failing pool the caller's key is returned without looking at it
serverKeyOrUserKey_UncheckedUserKey(prov, model, userProvidedKey, byokQueried) ==
    LET serverKey == getRotatingApiKey(IF prov = "google" THEN "gemini" ELSE prov)
    IN  IF ~serverKey.threw THEN Returned(serverKey.key, FALSE, byokQueried, TRUE)
        ELSE Returned(userProvidedKey, FALSE, byokQueried, TRUE)

\* try { getRotatingApiKey } catch { userProvidedKey or throw }
serverKeyOrUserKey(prov, model, userProvidedKey, byokQueried) ==
    LET serverKey == getRotatingApiKey(IF prov = "google" THEN "gemini" ELSE prov)
    IN  IF ~serverKey.threw THEN Returned(serverKey.key, FALSE, byokQueried, TRUE)
        ELSE IF truthy(userProvidedKey)
        THEN Returned(userProvidedKey, FALSE, byokQueried, TRUE)
        ELSE Threw("No API key available for", prov, model, byokQueried, TRUE)

\* the mutant: the rotating server key is tried before the workspace's own key
byokThenServerKey_ServerFirst(prov, model, workspaceId, userProvidedKey, isModelHosted) ==
    LET byokResult == getBYOKKey(workspaceId, prov)
    IN  IF isModelHosted /\ ~getRotatingApiKey(IF prov = "google" THEN "gemini" ELSE prov).threw
        THEN serverKeyOrUserKey(prov, model, userProvidedKey, FALSE)
        ELSE IF byokResult.found THEN Returned(byokResult.apiKey, byokResult.isBYOK, TRUE, FALSE)
        ELSE IF isModelHosted THEN serverKeyOrUserKey(prov, model, userProvidedKey, TRUE)
        ELSE FellThrough(TRUE)

\* the body of `if (isModelHosted || isMistralModel)`
byokThenServerKey(prov, model, workspaceId, userProvidedKey, isModelHosted) ==
    LET byokProviderId == IF prov = "google" THEN "google" ELSE prov
        byokResult == getBYOKKey(workspaceId, byokProviderId)
    IN  IF byokResult.threw
        THEN Rejected
        ELSE IF byokResult.found
        THEN Returned(byokResult.apiKey, byokResult.isBYOK, TRUE, FALSE)
        ELSE IF isModelHosted
        THEN serverKeyOrUserKey(prov, model, userProvidedKey, TRUE)
        ELSE FellThrough(TRUE)

getApiKeyWithBYOK(prov, model, workspaceId, userProvidedKey) ==
    LET isOllamaModel == prov = "ollama" \/ model \in storeOllama
        isVllmModel == prov = "vllm" \/ model \in storeVllm
        isBedrockModel == prov = "bedrock" \/ startsWith(model, BedrockPrefix)
        isOpenAIModel == prov = "openai"
        isClaudeModel == prov = "anthropic"
        isGeminiModel == prov = "google"
        isMistralModel == prov = "mistral"
        hostedTier ==
            /\ \/ isHosted /\ (isOpenAIModel \/ isClaudeModel \/ isGeminiModel \/ isMistralModel)
               \/ isServerKeysEnabled /\ isClaudeModel
            /\ truthy(workspaceId)
        isModelHosted == isModelHostedIn(getHostedModels, model)
        hosted == IF hostedTier /\ (isModelHosted \/ isMistralModel)
                  THEN byokThenServerKey(prov, model, workspaceId, userProvidedKey,
                                         isModelHosted)
                  ELSE FellThrough(FALSE)
    IN  IF isOllamaModel THEN Returned(<<"empty">>, FALSE, FALSE, FALSE)
        ELSE IF isVllmModel
        THEN Returned(IF truthy(userProvidedKey) THEN userProvidedKey ELSE <<"empty">>,
                      FALSE, FALSE, FALSE)
        ELSE IF isBedrockModel
        THEN Returned(<<"bedrock-uses-own-credentials">>, FALSE, FALSE, FALSE)
        ELSE IF ~hosted.fell THEN hosted
        ELSE IF ~truthy(userProvidedKey)
        THEN Threw("API key is required for", prov, model, hosted.byokQueried, FALSE)
        ELSE Returned(userProvidedKey, FALSE, hosted.byokQueried, FALSE)

\* the mutant: the ollama tier hands back the caller's key, as the vllm tier does
getApiKey_OllamaKeepsUserKey(prov, model, userProvidedKey) ==
    LET hasUserKey == truthy(userProvidedKey)
        isOllamaModel == prov = "ollama" \/ model \in storeOllama
        isVllmModel == prov = "vllm" \/ model \in storeVllm
        isBedrockModel == prov = "bedrock" \/ startsWith(model, BedrockPrefix)
        isOpenAIModel == prov = "openai"
        isClaudeModel == prov = "anthropic"
        isGeminiModel == prov = "google"
        isModelHosted == isModelHostedIn(getHostedModels, model)
        serverKey == getRotatingApiKey(IF isGeminiModel THEN "gemini" ELSE prov)
    IN  IF isOllamaModel
        THEN Returned(IF truthy(userProvidedKey) THEN userProvidedKey ELSE <<"empty">>,
                      FALSE, FALSE, FALSE)
        ELSE IF isVllmModel
        THEN Returned(IF truthy(userProvidedKey) THEN userProvidedKey ELSE <<"empty">>,
                      FALSE, FALSE, FALSE)
        ELSE IF isBedrockModel
        THEN Returned(<<"bedrock-uses-own-credentials">>, FALSE, FALSE, FALSE)
        ELSE IF /\ \/ isHosted /\ (isOpenAIModel \/ isClaudeModel \/ isGeminiModel)
                   \/ isServerKeysEnabled /\ isClaudeModel
                /\ isModelHosted
        THEN IF ~serverKey.threw
             THEN Returned(serverKey.key, FALSE, FALSE, TRUE)
             ELSE IF hasUserKey
             THEN Returned(userProvidedKey, FALSE, FALSE, TRUE)
             ELSE Threw("No API key available for", prov, model, FALSE, TRUE)
        ELSE IF ~hasUserKey
        THEN Threw("API key is required for", prov, model, FALSE, FALSE)
        ELSE Returned(userProvidedKey, FALSE, FALSE, FALSE)

getApiKey(prov, model, userProvidedKey) ==
    LET hasUserKey == truthy(userProvidedKey)
        isOllamaModel == prov = "ollama" \/ model \in storeOllama
        isVllmModel == prov = "vllm" \/ model \in storeVllm
        isBedrockModel == prov = "bedrock" \/ startsWith(model, BedrockPrefix)
        isOpenAIModel == prov = "openai"
        isClaudeModel == prov = "anthropic"
        isGeminiModel == prov = "google"
        isModelHosted == isModelHostedIn(getHostedModels, model)
        serverKey == getRotatingApiKey(IF isGeminiModel THEN "gemini" ELSE prov)
    IN  IF isOllamaModel THEN Returned(<<"empty">>, FALSE, FALSE, FALSE)
        ELSE IF isVllmModel
        THEN Returned(IF truthy(userProvidedKey) THEN userProvidedKey ELSE <<"empty">>,
                      FALSE, FALSE, FALSE)
        ELSE IF isBedrockModel
        THEN Returned(<<"bedrock-uses-own-credentials">>, FALSE, FALSE, FALSE)
        ELSE IF /\ \/ isHosted /\ (isOpenAIModel \/ isClaudeModel \/ isGeminiModel)
                   \/ isServerKeysEnabled /\ isClaudeModel
                /\ isModelHosted
        THEN IF ~serverKey.threw
             THEN Returned(serverKey.key, FALSE, FALSE, TRUE)
             ELSE IF hasUserKey
             THEN Returned(userProvidedKey, FALSE, FALSE, TRUE)
             ELSE Threw("No API key available for", prov, model, FALSE, TRUE)
        ELSE IF ~hasUserKey
        THEN Threw("API key is required for", prov, model, FALSE, FALSE)
        ELSE Returned(userProvidedKey, FALSE, FALSE, FALSE)

CredArgs ==
    [op : {"args"}, provider : CredProviders, model : CredModels,
     workspaceId : Workspaces \cup {Undefined}, userProvidedKey : UserKeys]

GetApiKeyWithBYOK ==
    /\ credCall.op = "args"
    /\ credCall' = [provider |-> credCall.provider, model |-> credCall.model,
                    workspaceId |-> credCall.workspaceId,
                    userProvidedKey |-> credCall.userProvidedKey,
                    op |-> "getApiKeyWithBYOK",
                    result |-> getApiKeyWithBYOK(credCall.provider, credCall.model,
                                                 credCall.workspaceId,
                                                 credCall.userProvidedKey)]
    /\ UNCHANGED <<isHosted, isServerKeysEnabled, storeOllama, storeVllm, byokRows,
                   dbUp, decryptOk, poolOk>>
    /\ UNCHANGED <<costVars, resVars, toolVars, streamVars>>

GetApiKey ==
    /\ credCall.op = "args"
    /\ credCall' = [provider |-> credCall.provider, model |-> credCall.model,
                    workspaceId |-> credCall.workspaceId,
                    userProvidedKey |-> credCall.userProvidedKey,
                    op |-> "getApiKey",
                    result |-> getApiKey(credCall.provider, credCall.model,
                                         credCall.userProvidedKey)]
    /\ UNCHANGED <<isHosted, isServerKeysEnabled, storeOllama, storeVllm, byokRows,
                   dbUp, decryptOk, poolOk>>
    /\ UNCHANGED <<costVars, resVars, toolVars, streamVars>>

(***************************************************************************)
(* Model resolver.  The registry `providers` is modelled for the providers *)
(* ProviderOrder, in the insertion order of the object literal; the model  *)
(* lists of ollama and openrouter are discovered at run time, the others   *)
(* and the patterns come from PROVIDER_DEFINITIONS.                        *)
(***************************************************************************)
MaxDynModels == 1
MaxBlacklist == 1
MaxPending == 1

ProviderOrder == <<"ollama", "openai", "anthropic", "openrouter">>
DynamicProviders == {"ollama", "openrouter"}

ClaudeOpus == <<"c", "-", "m">>
ClaudeOther == <<"c", "-", "c">>
MyClaude == <<"m", "c", "-", "m">>
LocalUpper == <<"M", "x">>
RouterModel == <<"o", "/", "m">>
Star == <<"*">>

toUpperChar(c) ==
    CASE c = "c" -> "C"
      [] c = "m" -> "M"
      [] c = "g" -> "G"
      [] c = "b" -> "B"
      [] OTHER -> c

\* every spelling of s that differs from it in letter case only
CaseVariants(s) ==
    {t \in [1..Len(s) -> Upper \cup {s[i] : i \in 1..Len(s)}] :
        \A i \in 1..Len(s) : t[i] \in {s[i], toUpperChar(s[i])}}

RECURSIVE trimStart(_)
trimStart(s) == IF s # <<>> /\ Head(s) = " " THEN trimStart(Tail(s)) ELSE s

RECURSIVE trimEnd(_)
trimEnd(s) ==
    IF s # <<>> /\ s[Len(s)] = " " THEN trimEnd(SubSeq(s, 1, Len(s) - 1)) ELSE s

trim(s) == trimEnd(trimStart(s))

\* getProviderModelsFromDefinitions at module load, for the static providers
staticModels(providerId) ==
    CASE providerId = "openai" -> <<GPT>>
      [] providerId = "anthropic" -> <<ClaudeOpus>>
      [] OTHER -> <<>>

\* PROVIDER_DEFINITIONS[id].modelPatterns, each pattern /^prefix/
modelPatterns(providerId) ==
    CASE providerId = "openai" -> <<(<<"g">>)>>
      [] providerId = "anthropic" -> <<(<<"c", "-">>)>>
      [] providerId = "openrouter" -> <<(<<"o", "/">>)>>
      [] OTHER -> <<>>

patternTest(pattern, name) == startsWith(name, pattern)

\* providers[id].models
modelsOf(providerId) ==
    IF providerId \in DynamicProviders THEN providerModels[providerId]
    ELSE staticModels(providerId)

\* the mutant: a name that is already in the map keeps its provider
putIfAbsent(map, key, value) ==
    [k \in DOMAIN map \cup {key} |-> IF k \in DOMAIN map THEN map[k] ELSE value]

\* map[key] = value
put(map, key, value) ==
    [k \in DOMAIN map \cup {key} |-> IF k = key THEN value ELSE map[k]]

\* config.models.forEach((model) => { map[model.toLowerCase()] = providerId })
RECURSIVE forEachModel(_, _, _)
forEachModel(map, models, providerId) ==
    IF models = <<>> THEN map
    ELSE forEachModel(put(map, toLowerCase(Head(models)), providerId), Tail(models), providerId)

RECURSIVE reduceProviders(_, _)
reduceProviders(map, ids) ==
    IF ids = <<>> THEN map
    ELSE reduceProviders(forEachModel(map, modelsOf(Head(ids)), Head(ids)), Tail(ids))

getAllModelProviders == reduceProviders(<<>>, ProviderOrder)

\* toLowerCase of a provider id as written in BLACKLISTED_PROVIDERS
toLowerCaseId(id) ==
    CASE id = "Anthropic" -> "anthropic"
      [] id = "OLLAMA" -> "ollama"
      [] OTHER -> id

getBlacklistedProviders == {toLowerCaseId(e) : e \in blProviders}

isProviderBlacklisted(providerId) == toLowerCaseId(providerId) \in getBlacklistedProviders

getBlacklistedModels ==
    LET entries == {toLowerCase(trim(e)) : e \in blModels}
    IN  [models |-> {e \in entries : ~endsWith(e, Star)},
         prefixes |-> {SubSeq(e, 1, Len(e) - 1) : e \in {x \in entries : endsWith(x, Star)}}]

\* the mutant: a prefix entry matches anywhere in the name (includes for startsWith)
isModelBlacklisted_Contains(model) ==
    LET lowerModel == toLowerCase(model)
        blacklist == getBlacklistedModels
    IN  \/ lowerModel \in blacklist.models
        \/ \E prefix \in blacklist.prefixes :
              \E k \in 0..Len(lowerModel) :
                  startsWith(SubSeq(lowerModel, k + 1, Len(lowerModel)), prefix)

isModelBlacklisted(model) ==
    LET lowerModel == toLowerCase(model)
        blacklist == getBlacklistedModels
    IN  \/ lowerModel \in blacklist.models
        \/ \E prefix \in blacklist.prefixes : startsWith(lowerModel, prefix)

\* the pattern loop: the first provider, in registry order, one of whose patterns matches
RECURSIVE firstPatternMatch(_, _)
firstPatternMatch(ids, normalizedModel) ==
    IF ids = <<>> THEN "null"
    ELSE IF \E i \in 1..Len(modelPatterns(Head(ids))) :
                patternTest(modelPatterns(Head(ids))[i], normalizedModel)
    THEN Head(ids)
    ELSE firstPatternMatch(Tail(ids), normalizedModel)

\* the mutant: the provider blacklist is not consulted
resolvedProviderCheck_NoProviderCheck(providerId, model, normalizedModel) ==
    IF isModelBlacklisted(normalizedModel)
    THEN [threw |-> TRUE, providerId |-> "null", error |-> <<"Model is not available", model>>]
    ELSE [threw |-> FALSE, providerId |-> providerId, error |-> <<>>]

\* the two blacklist checks on the resolved provider, and the return
resolvedProviderCheck(providerId, model, normalizedModel) ==
    IF isProviderBlacklisted(providerId)
    THEN [threw |-> TRUE, providerId |-> "null",
          error |-> <<"Provider is not available", providerId>>]
    ELSE IF isModelBlacklisted(normalizedModel)
    THEN [threw |-> TRUE, providerId |-> "null", error |-> <<"Model is not available", model>>]
    ELSE [threw |-> FALSE, providerId |-> providerId, error |-> <<>>]

\* the mutant: a name that matches nothing is refused, there is no fallback provider
getProviderFromModel_NoFallback(model) ==
    LET normalizedModel == toLowerCase(model)
        index == getAllModelProviders
        found == IF normalizedModel \in DOMAIN index THEN index[normalizedModel]
                 ELSE firstPatternMatch(ProviderOrder, normalizedModel)
    IN  IF found = "null"
        THEN [threw |-> TRUE, providerId |-> "null", error |-> <<"No provider found", model>>]
        ELSE resolvedProviderCheck(found, model, normalizedModel)

getProviderFromModel(model) ==
    LET normalizedModel == toLowerCase(model)
        index == getAllModelProviders
        found == IF normalizedModel \in DOMAIN index THEN index[normalizedModel]
                 ELSE firstPatternMatch(ProviderOrder, normalizedModel)
        providerId == IF found = "null" THEN "ollama" ELSE found
    IN  resolvedProviderCheck(providerId, model, normalizedModel)

OllamaPool == {GPT, ClaudeOther, LocalUpper}
OpenRouterPool == {RouterModel, ClaudeOpus}

ListsOver(pool, maxLen) == UNION {[1..n -> pool] : n \in 0..maxLen}

ResolveInputs ==
    UNION {CaseVariants(s) :
             s \in {GPT, ClaudeOpus, ClaudeOther, MyClaude, LocalUpper, RouterModel, <<"x">>}}

BlacklistProviderEntries == {"ollama", "OLLAMA", "Anthropic", "openai"}
BlacklistModelEntries ==
    {<<"c", "-", "*">>, <<" ", "C", "-", "*", " ">>, <<"c", "-", "M">>, <<"g", "p">>, <<"m", "*">>,
     <<"x">>}

\* updateOllamaModels / updateOpenRouterModels of @/providers/models: the definition's
\* model list is replaced by the new one
updateModelsInDefinitions(definitions, providerId, models) ==
    [definitions EXCEPT ![providerId] = models]

\* getProviderModels of @/providers/models
getProviderModelsFromDefinitions(definitions, providerId) == definitions[providerId]

\* the mutant: the definitions are updated, the registry entry is not re-read
refreshProviderModels_DefinitionsOnly(providerId, models) ==
    /\ definitionModels' = updateModelsInDefinitions(definitionModels, providerId, models)
    /\ UNCHANGED providerModels

\* the two statements every update function ends with, run without a break:
\* update...Models(models); providers.<id>.models = getProviderModelsFromDefinitions(<id>)
refreshProviderModels(providerId, models) ==
    /\ definitionModels' = updateModelsInDefinitions(definitionModels, providerId, models)
    /\ providerModels' =
          [providerModels EXCEPT
              ![providerId] = getProviderModelsFromDefinitions(definitionModels', providerId)]

\* updateOllamaProviderModels: the definitions are updated and the registry entry
\* is re-read from them in one synchronous call
UpdateOllamaProviderModels ==
    /\ resCall.op = "args"
    /\ \E models \in ListsOver(OllamaPool, MaxDynModels) :
          refreshProviderModels("ollama", models)
    /\ UNCHANGED <<blProviders, blModels, resCall, pendingRefresh, observed>>
    /\ UNCHANGED <<costVars, credVars, toolVars, streamVars>>

\* updateOpenRouterProviderModels, the call and its resumption after the import taken
\* as one step: nothing of the registry is read or written before the import resolves
UpdateOpenRouterProviderModels ==
    /\ resCall.op = "args"
    /\ \E models \in ListsOver(OpenRouterPool, MaxDynModels) :
          refreshProviderModels("openrouter", models)
    /\ UNCHANGED <<blProviders, blModels, resCall, pendingRefresh, observed>>
    /\ UNCHANGED <<costVars, credVars, toolVars, streamVars>>

\* updateOpenRouterProviderModels up to its await: the call waits for the import,
\* holding its argument; other calls run meanwhile
StartOpenRouterRefresh ==
    /\ resCall.op = "args"
    /\ Len(pendingRefresh) < MaxPending
    /\ \E models \in ListsOver(OpenRouterPool, MaxDynModels) :
          pendingRefresh' = Append(pendingRefresh, models)
    /\ UNCHANGED <<providerModels, blProviders, blModels, resCall, definitionModels, observed>>
    /\ UNCHANGED <<costVars, credVars, toolVars, streamVars>>

\* updateOpenRouterProviderModels after its await, for any of the waiting calls
ResumeOpenRouterRefresh ==
    /\ \E i \in 1..Len(pendingRefresh) :
          /\ refreshProviderModels("openrouter", pendingRefresh[i])
          /\ pendingRefresh' = SubSeq(pendingRefresh, 1, i - 1)
                                \o SubSeq(pendingRefresh, i + 1, Len(pendingRefresh))
    /\ UNCHANGED <<blProviders, blModels, resCall, observed>>
    /\ UNCHANGED <<costVars, credVars, toolVars, streamVars>>

\* a reader calls getAllModelProviders between two other calls
GetAllModelProviders ==
    /\ resCall.op = "args"
    /\ observed' =
          [op |-> "getAllModelProviders",
           agrees |-> \A id \in DynamicProviders :
                         modelsOf(id) = getProviderModelsFromDefinitions(definitionModels, id),
           whole |-> /\ modelsOf("ollama") \in ListsOver(OllamaPool, MaxDynModels)
                     /\ modelsOf("openrouter") \in ListsOver(OpenRouterPool, MaxDynModels)]
    /\ UNCHANGED <<providerModels, blProviders, blModels, resCall, definitionModels,
                   pendingRefresh>>
    /\ UNCHANGED <<costVars, credVars, toolVars, streamVars>>

GetProviderFromModel ==
    /\ resCall.op = "args"
    /\ resCall' = [op |-> "getProviderFromModel", model |-> resCall.model,
                   result |-> getProviderFromModel(resCall.model)]
    /\ UNCHANGED <<providerModels, blProviders, blModels, definitionModels, pendingRefresh,
                   observed>>
    /\ UNCHANGED <<costVars, credVars, toolVars, streamVars>>

(***************************************************************************)
(* Tool policy and the forced-tool cycle.  A tool choice or tool config is *)
(* a record [type, name, mode, allowed]: 'auto', undefined and null by     *)
(* their type alone, {type:'tool', name}, {type:'function', function:      *)
(* {name}}, and {functionCallingConfig:{mode, allowedFunctionNames}} as    *)
(* type "config" (allowed = <<>> when the field is absent; the code never  *)
(* builds an empty allow-list).  A response is the list of the names of    *)
(* its tool calls (tc.function?.name || tc.name || tc.id).                 *)
(***************************************************************************)
MaxTools == 3

ToolIds == {"A", "B", "C"}
UsageControls == {"auto", "force", "none"}
ToolProviders == {"anthropic", "google", "openai"}

Plain(type) == [type |-> type, name |-> "", mode |-> "", allowed |-> <<>>]
AutoChoice == Plain("auto")
UndefinedChoice == Plain("undefined")
NullChoice == Plain("null")
ToolNameChoice(name) == [type |-> "tool", name |-> name, mode |-> "", allowed |-> <<>>]
FunctionChoice(name) == [type |-> "function", name |-> name, mode |-> "", allowed |-> <<>>]
FunctionCallingConfig(mode, allowed) ==
    [type |-> "config", name |-> "", mode |-> mode, allowed |-> allowed]

\* providerTools?.find((t) => t.id === toolId)?.usageControl
usageControlOf(descriptors, toolId) ==
    IF \E i \in 1..Len(descriptors) : descriptors[i].id = toolId
    THEN descriptors[CHOOSE i \in 1..Len(descriptors) :
                        /\ descriptors[i].id = toolId
                        /\ \A j \in 1..(i - 1) : descriptors[j].id # toolId].usageControl
    ELSE "undefined"

idsOf(descriptors) == [i \in 1..Len(descriptors) |-> descriptors[i].id]

\* the mutant: the google allow-list holds the first forced tool only
forcedToolChoice_FirstOnly(prov, forcedToolIds) ==
    IF prov = "anthropic"
    THEN [toolChoice |-> ToolNameChoice(forcedToolIds[1]), toolConfig |-> UndefinedChoice]
    ELSE IF prov = "google"
    THEN [toolChoice |-> AutoChoice,
          toolConfig |-> FunctionCallingConfig("ANY", <<forcedToolIds[1]>>)]
    ELSE [toolChoice |-> FunctionChoice(forcedToolIds[1]), toolConfig |-> UndefinedChoice]

\* the tool choice for a non-empty forced list, by provider
forcedToolChoice(prov, forcedToolIds) ==
    IF prov = "anthropic"
    THEN [toolChoice |-> ToolNameChoice(forcedToolIds[1]), toolConfig |-> UndefinedChoice]
    ELSE IF prov = "google"
    THEN [toolChoice |-> AutoChoice,
          toolConfig |-> FunctionCallingConfig("ANY",
                            IF Len(forcedToolIds) = 1 THEN <<forcedToolIds[1]>>
                            ELSE forcedToolIds)]
    ELSE [toolChoice |-> FunctionChoice(forcedToolIds[1]), toolConfig |-> UndefinedChoice]

prepareToolsWithUsageControl(toolList, descriptors, prov) ==
    LET filteredTools ==
            SelectSeq(toolList, LAMBDA toolId : usageControlOf(descriptors, toolId) # "none")
        hasFilteredTools == Len(filteredTools) < Len(toolList)
        forcedTools == SelectSeq(descriptors, LAMBDA tool : tool.usageControl = "force")
        forcedToolIds == idsOf(forcedTools)
        choice == IF Len(forcedTools) > 0 THEN forcedToolChoice(prov, forcedToolIds)
                  ELSE [toolChoice |-> AutoChoice,
                        toolConfig |-> IF prov = "google"
                                       THEN FunctionCallingConfig("AUTO", <<>>)
                                       ELSE UndefinedChoice]
    IN  IF Len(toolList) = 0
        THEN [tools |-> <<>>, hasTools |-> FALSE, toolChoice |-> UndefinedChoice,
              toolConfig |-> UndefinedChoice, hasFilteredTools |-> FALSE, forcedTools |-> <<>>]
        ELSE IF Len(filteredTools) = 0
        THEN [tools |-> <<>>, hasTools |-> FALSE, toolChoice |-> UndefinedChoice,
              toolConfig |-> UndefinedChoice, hasFilteredTools |-> TRUE, forcedTools |-> <<>>]
        ELSE [tools |-> filteredTools, hasTools |-> TRUE, toolChoice |-> choice.toolChoice,
              toolConfig |-> choice.toolConfig, hasFilteredTools |-> hasFilteredTools,
              forcedTools |-> forcedToolIds]

\* the names the prior tool choice forces
forcedToolNamesOf(prov, originalToolChoice) ==
    IF prov = "google" /\ originalToolChoice.type = "config" /\ originalToolChoice.mode = "ANY"
    THEN originalToolChoice.allowed
    ELSE IF originalToolChoice.type \in {"function", "tool"} /\ originalToolChoice.name # ""
    THEN <<originalToolChoice.name>>
    ELSE <<>>

\* the mutant: the remaining tools are computed against the used list of the call's
\* argument, not the updated one
remainingTools_StaleUsed(forcedTools, usedBefore, updatedUsedForcedTools) ==
    SelectSeq(forcedTools, LAMBDA tool : ~includes(usedBefore, tool))

remainingTools(forcedTools, usedBefore, updatedUsedForcedTools) ==
    SelectSeq(forcedTools, LAMBDA tool : ~includes(updatedUsedForcedTools, tool))

\* the mutant: the tool-name family gets the function-call encoding
nextAfterUse_FunctionForAll(prov, originalToolChoice, remaining) ==
    IF Len(remaining) > 0
    THEN IF prov = "anthropic"
         THEN [choice |-> FunctionChoice(remaining[1]), config |-> UndefinedChoice]
         ELSE IF prov = "google"
         THEN [choice |-> originalToolChoice,
               config |-> FunctionCallingConfig("ANY",
                              IF Len(remaining) = 1 THEN <<remaining[1]>> ELSE remaining)]
         ELSE [choice |-> FunctionChoice(remaining[1]), config |-> UndefinedChoice]
    ELSE IF prov = "anthropic"
         THEN [choice |-> NullChoice, config |-> UndefinedChoice]
         ELSE IF prov = "google"
         THEN [choice |-> originalToolChoice, config |-> FunctionCallingConfig("AUTO", <<>>)]
         ELSE [choice |-> AutoChoice, config |-> UndefinedChoice]

\* the next choice and config after a turn that used a forced tool
nextAfterUse(prov, originalToolChoice, remaining) ==
    IF Len(remaining) > 0
    THEN IF prov = "anthropic"
         THEN [choice |-> ToolNameChoice(remaining[1]), config |-> UndefinedChoice]
         ELSE IF prov = "google"
         THEN [choice |-> originalToolChoice,
               config |-> FunctionCallingConfig("ANY",
                              IF Len(remaining) = 1 THEN <<remaining[1]>> ELSE remaining)]
         ELSE [choice |-> FunctionChoice(remaining[1]), config |-> UndefinedChoice]
    ELSE IF prov = "anthropic"
         THEN [choice |-> NullChoice, config |-> UndefinedChoice]
         ELSE IF prov = "google"
         THEN [choice |-> originalToolChoice, config |-> FunctionCallingConfig("AUTO", <<>>)]
         ELSE [choice |-> AutoChoice, config |-> UndefinedChoice]

\* the mutant: a turn that used no forced tool resets the choice to auto
trackResult_ResetsWhenUnused(prov, originalToolChoice, hasUsedForcedTool, updatedUsed, next) ==
    [hasUsedForcedTool |-> hasUsedForcedTool,
     usedForcedTools |-> updatedUsed,
     nextToolChoice |-> IF hasUsedForcedTool THEN next.choice ELSE AutoChoice,
     nextToolConfig |-> IF prov = "google"
                        THEN (IF hasUsedForcedTool THEN next.config
                              ELSE FunctionCallingConfig("AUTO", <<>>))
                        ELSE UndefinedChoice]

\* the return statement of trackForcedToolUsage
trackResult(prov, originalToolChoice, hasUsedForcedTool, updatedUsed, next) ==
    [hasUsedForcedTool |-> hasUsedForcedTool,
     usedForcedTools |-> updatedUsed,
     nextToolChoice |-> IF hasUsedForcedTool THEN next.choice ELSE originalToolChoice,
     nextToolConfig |-> IF prov = "google"
                        THEN (IF hasUsedForcedTool THEN next.config ELSE originalToolChoice)
                        ELSE UndefinedChoice]

\* the mutant: every forced tool the response invokes counts, named by the prior
\* choice or not
trackForcedToolUsage_CountsAnyForced(toolCallsResponse, originalToolChoice, prov, forcedTools, used) ==
    LET forcedToolNames == forcedToolNamesOf(prov, originalToolChoice)
        toolNames == IF toolCallsResponse = Undefined THEN <<>> ELSE toolCallsResponse
        usedTools == IF Len(forcedToolNames) > 0 /\ Len(toolNames) > 0
                     THEN SelectSeq(forcedTools,
                                    LAMBDA name : includes(toolNames, name) /\ ~includes(used, name))
                     ELSE <<>>
        hasUsedForcedTool == Len(usedTools) > 0
        updatedUsedForcedTools == used \o usedTools
        remaining == remainingTools(forcedTools, used, updatedUsedForcedTools)
    IN  trackResult(prov, originalToolChoice, hasUsedForcedTool, updatedUsedForcedTools,
                    nextAfterUse(prov, originalToolChoice, remaining))

trackForcedToolUsage(toolCallsResponse, originalToolChoice, prov, forcedTools, used) ==
    LET forcedToolNames == forcedToolNamesOf(prov, originalToolChoice)
        toolNames == IF toolCallsResponse = Undefined THEN <<>> ELSE toolCallsResponse
        usedTools == IF Len(forcedToolNames) > 0 /\ Len(toolNames) > 0
                     THEN SelectSeq(forcedToolNames, LAMBDA name : includes(toolNames, name))
                     ELSE <<>>
        hasUsedForcedTool == Len(usedTools) > 0
        updatedUsedForcedTools == used \o usedTools
        remaining == remainingTools(forcedTools, used, updatedUsedForcedTools)
    IN  trackResult(prov, originalToolChoice, hasUsedForcedTool, updatedUsedForcedTools,
                    nextAfterUse(prov, originalToolChoice, remaining))

\* what the tool loop of a provider passes as the prior choice of the next turn
threaded(prov, result) ==
    IF prov = "google" THEN result.nextToolConfig ELSE result.nextToolChoice

\* The loop of a provider calls trackForcedToolUsage once per turn.  turns counts
\* the calls made while the prior choice forced a tool (up to MaxTurns), and
\* records whether one of them came with a response that invoked none of them.
MaxTurns == 4
NoTurns == [forced |-> 0, missed |-> FALSE]

nextTurns(before, wasForced, hasUsedForcedTool) ==
    IF wasForced
    THEN [forced |-> IF before.forced < MaxTurns THEN before.forced + 1 ELSE MaxTurns,
          missed |-> before.missed \/ ~hasUsedForcedTool]
    ELSE before

Descriptors == [id : ToolIds, usageControl : UsageControls]

\* Tool ids are opaque to the code, so descriptor lists are drawn up to renaming:
\* the first tool is A, and a new id is the next of A, B, C.
rank(id) == CASE id = "A" -> 1 [] id = "B" -> 2 [] OTHER -> 3

firstUseInOrder(list) ==
    \A i \in 1..Len(list) :
        \A r \in 1..(rank(list[i].id) - 1) : \E j \in 1..(i - 1) : rank(list[j].id) = r

DescriptorLists ==
    {list \in UNION {[1..n -> Descriptors] : n \in 0..MaxTools} : firstUseInOrder(list)}

\* the tool ids of S in the order A, B, C
RECURSIVE listOf(_, _)
listOf(S, order) ==
    IF order = <<>> THEN <<>>
    ELSE (IF Head(order) \in S THEN <<Head(order)>> ELSE <<>>) \o listOf(S, Tail(order))

ToolLists == {listOf(S, <<"A", "B", "C">>) : S \in SUBSET ToolIds}
Responses == {Undefined} \cup ToolLists \cup {<<"A", "A">>}

PrepareToolsWithUsageControl ==
    /\ policy = NoCall
    /\ LET result == prepareToolsWithUsageControl(tools, providerTools, provider)
       IN  /\ policy' = [op |-> "prepareToolsWithUsageControl", result |-> result]
           /\ toolChoice' = IF provider = "google" THEN result.toolConfig ELSE result.toolChoice
    /\ usedForcedTools' = <<>>
    /\ UNCHANGED <<provider, tools, providerTools, trackCall, turns>>
    /\ UNCHANGED <<costVars, credVars, resVars, streamVars>>

\* one turn of the tool loop: the response is checked and the state is threaded on
TrackForcedToolUsage ==
    /\ policy # NoCall
    /\ \E response \in Responses :
          LET result == trackForcedToolUsage(response, toolChoice, provider,
                                             policy.result.forcedTools, usedForcedTools)
          IN  /\ trackCall' = [op |-> "trackForcedToolUsage",
                               toolCallsResponse |-> response,
                               originalToolChoice |-> toolChoice,
                               usedForcedTools |-> usedForcedTools,
                               result |-> result]
              /\ toolChoice' = threaded(provider, result)
              /\ usedForcedTools' = result.usedForcedTools
              /\ turns' = nextTurns(turns, forcedToolNamesOf(provider, toolChoice) # <<>>,
                                    result.hasUsedForcedTool)
    /\ UNCHANGED <<provider, tools, providerTools, policy>>
    /\ UNCHANGED <<costVars, credVars, resVars, streamVars>>

(***************************************************************************)
(* Stream decoder.  start(controller) runs when the stream is built; each  *)
(* turn of its for-await loop is one step.  A chunk is [content, usage]:   *)
(* content is chunk.choices?.[0]?.delta?.content || '' as a sequence of    *)
(* characters, usage is NoUsage or the three counters (a counter the       *)
(* vendor left out is 0, as `?? 0` makes it).  onComplete is given.        *)
(***************************************************************************)
MaxChunks == 3

NoUsage == [present |-> FALSE, prompt_tokens |-> 0, completion_tokens |-> 0, total_tokens |-> 0]
Usage(p, c, t) ==
    [present |-> TRUE, prompt_tokens |-> p, completion_tokens |-> c, total_tokens |-> t]

Chunks ==
    [content : {<<>>, <<"a">>, <<"b", "c">>}, usage : {NoUsage, Usage(3, 2, 5)}]
    \cup [content : {<<>>}, usage : {Usage(3, 2, 0), Usage(0, 0, 0)}]

ChunkLists == UNION {[1..n -> Chunks] : n \in 0..MaxChunks}

\* the mutant: the first usage seen is kept, later usage chunks are ignored
applyUsage_KeepsFirst(chunk, counters) ==
    IF chunk.usage.present /\ counters = <<0, 0, 0>>
    THEN <<chunk.usage.prompt_tokens, chunk.usage.completion_tokens, chunk.usage.total_tokens>>
    ELSE counters

\* if (chunk.usage) { promptTokens = ...; completionTokens = ...; totalTokens = ... }
applyUsage(chunk, counters) ==
    IF chunk.usage.present
    THEN <<chunk.usage.prompt_tokens, chunk.usage.completion_tokens, chunk.usage.total_tokens>>
    ELSE counters

\* the usage object handed to onComplete
completionUsage(prompt, completion, total) ==
    [prompt_tokens |-> prompt,
     completion_tokens |-> completion,
     total_tokens |-> IF total # 0 THEN total ELSE prompt + completion]

\* one turn of the for-await loop.  On a stream that is no longer readable
\* controller.enqueue throws: the loop is left through the catch, which closes
\* the vendor iterator; controller.error is then without effect.
NextChunk ==
    /\ streamPc = "iterating"
    /\ vendor # <<>>
    /\ LET chunk == Head(vendor)
           counters == applyUsage(chunk, <<promptTokens, completionTokens, totalTokens>>)
       IN  /\ vendor' = Tail(vendor)
           /\ taken' = Append(taken, chunk)
           /\ promptTokens' = counters[1]
           /\ completionTokens' = counters[2]
           /\ totalTokens' = counters[3]
           /\ IF chunk.content = <<>>
              THEN UNCHANGED <<fullContent, emitted, streamPc, released>>
              ELSE /\ fullContent' = fullContent \o chunk.content
                   /\ IF streamState = "readable"
                      THEN /\ emitted' = Append(emitted, chunk.content)
                           /\ UNCHANGED <<streamPc, released>>
                      ELSE /\ streamPc' = "caught"
                           /\ released' = TRUE
                           /\ UNCHANGED emitted
    /\ UNCHANGED <<vendorFails, streamState, readCount, completed>>
    /\ UNCHANGED <<costVars, credVars, resVars, toolVars>>

\* the mutant: onComplete is called only when some content was decoded
VendorEnds_SkipsEmptyContent ==
    /\ streamPc = "iterating"
    /\ vendor = <<>>
    /\ ~vendorFails
    /\ completed' = IF fullContent = <<>> THEN completed
                    ELSE Append(completed,
                                [content |-> fullContent,
                                 usage |-> completionUsage(promptTokens, completionTokens,
                                                           totalTokens)])
    /\ IF streamState = "readable"
       THEN streamState' = "closed" /\ streamPc' = "finished"
       ELSE streamPc' = "caught" /\ UNCHANGED streamState
    /\ UNCHANGED <<vendor, vendorFails, readCount, released, fullContent, promptTokens,
                   completionTokens, totalTokens, emitted, taken>>
    /\ UNCHANGED <<costVars, credVars, resVars, toolVars>>

\* the mutant: a stream that reported no usage is failed instead of completed
VendorEnds_NoUsageIsError ==
    /\ streamPc = "iterating"
    /\ vendor = <<>>
    /\ ~vendorFails
    /\ IF promptTokens = 0 /\ completionTokens = 0
       THEN /\ streamPc' = "caught"
            /\ streamState' = IF streamState = "readable" THEN "errored" ELSE streamState
            /\ UNCHANGED completed
       ELSE /\ completed' = Append(completed,
                                   [content |-> fullContent,
                                    usage |-> [prompt_tokens |-> promptTokens,
                                               completion_tokens |-> completionTokens,
                                               total_tokens |-> totalTokens]])
            /\ IF streamState = "readable"
               THEN streamState' = "closed" /\ streamPc' = "finished"
               ELSE streamPc' = "caught" /\ UNCHANGED streamState
    /\ UNCHANGED <<vendor, vendorFails, readCount, released, fullContent, promptTokens,
                   completionTokens, totalTokens, emitted, taken>>
    /\ UNCHANGED <<costVars, credVars, resVars, toolVars>>

\* the vendor stream ends: onComplete, then controller.close(), which throws on a
\* stream that is no longer readable
VendorEnds ==
    /\ streamPc = "iterating"
    /\ vendor = <<>>
    /\ ~vendorFails
    /\ completed' = Append(completed,
                           [content |-> fullContent,
                            usage |-> completionUsage(promptTokens, completionTokens,
                                                      totalTokens)])
    /\ IF streamState = "readable"
       THEN streamState' = "closed" /\ streamPc' = "finished"
       ELSE streamPc' = "caught" /\ UNCHANGED streamState
    /\ UNCHANGED <<vendor, vendorFails, readCount, released, fullContent, promptTokens,
                   completionTokens, totalTokens, emitted, taken>>
    /\ UNCHANGED <<costVars, credVars, resVars, toolVars>>

\* the mutant: the catch ends the stream as a success, with what was decoded
VendorThrows_ClosesQuietly ==
    /\ streamPc = "iterating"
    /\ vendor = <<>>
    /\ vendorFails
    /\ streamPc' = "caught"
    /\ completed' = Append(completed,
                           [content |-> fullContent,
                            usage |-> [prompt_tokens |-> promptTokens,
                                       completion_tokens |-> completionTokens,
                                       total_tokens |-> totalTokens]])
    /\ streamState' = IF streamState = "readable" THEN "closed" ELSE streamState
    /\ UNCHANGED <<vendor, vendorFails, readCount, released, fullContent, promptTokens,
                   completionTokens, totalTokens, emitted, taken>>
    /\ UNCHANGED <<costVars, credVars, resVars, toolVars>>

\* the vendor iterator throws: catch (error) { controller.error(error) }
VendorThrows ==
    /\ streamPc = "iterating"
    /\ vendor = <<>>
    /\ vendorFails
    /\ streamPc' = "caught"
    /\ streamState' = IF streamState = "readable" THEN "errored" ELSE streamState
    /\ UNCHANGED <<vendor, vendorFails, readCount, released, fullContent, promptTokens,
                   completionTokens, totalTokens, emitted, completed, taken>>
    /\ UNCHANGED <<costVars, credVars, resVars, toolVars>>

\* the consumer reads the next delta of the queue
ConsumerRead ==
    /\ streamState \in {"readable", "closed"}
    /\ readCount < Len(emitted)
    /\ readCount' = readCount + 1
    /\ UNCHANGED <<vendor, vendorFails, streamPc, streamState, released, fullContent,
                   promptTokens, completionTokens, totalTokens, emitted, completed, taken>>
    /\ UNCHANGED <<costVars, credVars, resVars, toolVars>>

\* the consumer cancels the stream; the underlying source has no cancel()
ConsumerCancel ==
    /\ streamState = "readable"
    /\ streamState' = "cancelled"
    /\ UNCHANGED <<vendor, vendorFails, streamPc, readCount, released, fullContent,
                   promptTokens, completionTokens, totalTokens, emitted, completed, taken>>
    /\ UNCHANGED <<costVars, credVars, resVars, toolVars>>

(***************************************************************************)
(* Initial states and specifications.                                      *)
(***************************************************************************)
CostIdle == costCall = NoCall

CredIdle ==
    /\ isHosted = FALSE
    /\ isServerKeysEnabled = FALSE
    /\ storeOllama = {}
    /\ storeVllm = {}
    /\ byokRows = {}
    /\ dbUp = TRUE
    /\ decryptOk = TRUE
    /\ poolOk = TRUE
    /\ credCall = NoCall

ResIdle ==
    /\ providerModels = [p \in DynamicProviders |-> <<>>]
    /\ blProviders = {}
    /\ blModels = {}
    /\ resCall = NoCall
    /\ definitionModels = [p \in DynamicProviders |-> <<>>]
    /\ pendingRefresh = <<>>
    /\ observed = NoCall

ToolsIdle ==
    /\ provider = "openai"
    /\ tools = <<>>
    /\ providerTools = <<>>
    /\ policy = NoCall
    /\ toolChoice = NoCall
    /\ usedForcedTools = <<>>
    /\ trackCall = NoCall
    /\ turns = NoTurns

StreamIdle ==
    /\ vendor = <<>>
    /\ vendorFails = FALSE
    /\ streamPc = "idle"
    /\ streamState = "readable"
    /\ readCount = 0
    /\ released = FALSE
    /\ fullContent = <<>>
    /\ promptTokens = 0
    /\ completionTokens = 0
    /\ totalTokens = 0
    /\ emitted = <<>>
    /\ completed = <<>>
    /\ taken = <<>>

InitCost ==
    /\ costCall \in CostArgs
    /\ CredIdle /\ ResIdle /\ ToolsIdle /\ StreamIdle

NextCost == CalculateCost

SpecCost == InitCost /\ [][NextCost]_vars

\* isServerKeysEnabled is blocked when isHosted (feature-flags.ts)
InitCred ==
    /\ isHosted \in BOOLEAN
    /\ isServerKeysEnabled \in {v \in BOOLEAN : v => ~isHosted}
    /\ storeOllama \in {{}, {GPT}}
    /\ storeVllm \in {{}, {GPT}}
    /\ byokRows \in {r \in SUBSET (Workspaces \X BYOKProviderIds) : Cardinality(r) <= MaxRows}
    /\ dbUp \in BOOLEAN
    /\ decryptOk \in BOOLEAN
    /\ poolOk \in BOOLEAN
    /\ credCall \in CredArgs
    /\ CostIdle /\ ResIdle /\ ToolsIdle /\ StreamIdle

InitResolve ==
    /\ providerModels \in [DynamicProviders -> ListsOver(OllamaPool \cup OpenRouterPool, MaxDynModels)]
    /\ providerModels["ollama"] \in ListsOver(OllamaPool, MaxDynModels)
    /\ providerModels["openrouter"] \in ListsOver(OpenRouterPool, MaxDynModels)
    /\ blProviders \in {b \in SUBSET BlacklistProviderEntries : Cardinality(b) <= MaxBlacklist}
    /\ blModels \in {b \in SUBSET BlacklistModelEntries : Cardinality(b) <= MaxBlacklist}
    /\ resCall \in [op : {"args"}, model : ResolveInputs]
    /\ definitionModels = providerModels
    /\ pendingRefresh = <<>>
    /\ observed = NoCall
    /\ CostIdle /\ CredIdle /\ ToolsIdle /\ StreamIdle

NextResolve ==
    \/ UpdateOllamaProviderModels
    \/ UpdateOpenRouterProviderModels
    \/ GetProviderFromModel

SpecResolve == InitResolve /\ [][NextResolve]_vars

\* the registry as the module builds it, before any refresh; refreshes and readers
\* run as separate calls of the event loop, in any order
InitRefresh ==
    /\ providerModels = [p \in DynamicProviders |-> <<>>]
    /\ definitionModels = providerModels
    /\ blProviders = {}
    /\ blModels = {}
    /\ resCall \in [op : {"args"}, model : {GPTUpper, RouterModel}]
    /\ pendingRefresh = <<>>
    /\ observed = NoCall
    /\ CostIdle /\ CredIdle /\ ToolsIdle /\ StreamIdle

NextRefresh ==
    \/ UpdateOllamaProviderModels
    \/ StartOpenRouterRefresh
    \/ ResumeOpenRouterRefresh
    \/ GetAllModelProviders
    \/ GetProviderFromModel

SpecRefresh == InitRefresh /\ [][NextRefresh]_vars

\* the providers build the tools argument from the descriptors, one tool each
InitTools ==
    /\ provider \in ToolProviders
    /\ providerTools \in DescriptorLists
    /\ tools = idsOf(providerTools)
    /\ policy = NoCall
    /\ toolChoice = NoCall
    /\ usedForcedTools = <<>>
    /\ trackCall = NoCall
    /\ turns = NoTurns
    /\ CostIdle /\ CredIdle /\ ResIdle /\ StreamIdle

NextTools == PrepareToolsWithUsageControl \/ TrackForcedToolUsage

SpecTools == InitTools /\ [][NextTools]_vars

\* prepareToolsWithUsageControl alone, on any tools argument
InitPolicy ==
    /\ provider \in ToolProviders
    /\ providerTools \in DescriptorLists
    /\ tools \in ToolLists
    /\ policy = NoCall
    /\ toolChoice = NoCall
    /\ usedForcedTools = <<>>
    /\ trackCall = NoCall
    /\ turns = NoTurns
    /\ CostIdle /\ CredIdle /\ ResIdle /\ StreamIdle

NextPolicy == PrepareToolsWithUsageControl

SpecPolicy == InitPolicy /\ [][NextPolicy]_vars

InitStream ==
    /\ vendor \in ChunkLists
    /\ vendorFails \in BOOLEAN
    /\ streamPc = "iterating"
    /\ streamState = "readable"
    /\ readCount = 0
    /\ released = FALSE
    /\ fullContent = <<>>
    /\ promptTokens = 0
    /\ completionTokens = 0
    /\ totalTokens = 0
    /\ emitted = <<>>
    /\ completed = <<>>
    /\ taken = <<>>
    /\ CostIdle /\ CredIdle /\ ResIdle /\ ToolsIdle

NextStream ==
    \/ NextChunk
    \/ VendorEnds
    \/ VendorThrows
    \/ ConsumerRead
    \/ ConsumerCancel

SpecStream == InitStream /\ [][NextStream]_vars

NextCred == GetApiKeyWithBYOK \/ GetApiKey

SpecCred == InitCred /\ [][NextCred]_vars

(***************************************************************************)
(* Claims about the cost calculator (SpecCost).                            *)
(***************************************************************************)
CostDone == costCall.op = "calculateCost"

HasNoPricing(model) ==
    /\ getEmbeddingModelPricing(model) = NoPricing
    /\ getModelPricingFromDefinitions(model) = NoPricing

\* C1: for a model with neither embedding nor general pricing and
\* promptTokens + completionTokens > 0, the total cost is strictly positive.
C1_UnknownModelCostPositive ==
    (/\ CostDone
     /\ HasNoPricing(costCall.model)
     /\ costCall.promptTokens + costCall.completionTokens > 0)
    => costCall.result.total > 0

\* the call of C13: a priced model, one million prompt tokens, no completion
\* tokens, no cached input, no multipliers passed
C13_Case ==
    /\ CostDone
    /\ ~HasNoPricing(costCall.model)
    /\ costCall.promptTokens = Million
    /\ costCall.completionTokens = 0
    /\ ~costCall.useCachedInput
    /\ costCall.inputMultiplier = 0
    /\ costCall.outputMultiplier = 0

\* a price per million tokens (in thousandths of a dollar) as a cost in units of
\* the eighth decimal digit
PerMillionAsCost(price) == price * 100000

\* C13: in that call the input cost and the total cost are the entry's input price
\* per million tokens to 8 decimal digits, and the output cost is 0.
C13_MillionTokensCostInputPrice ==
    C13_Case =>
        /\ costCall.result.input = PerMillionAsCost(costCall.result.pricing.input)
        /\ costCall.result.total = PerMillionAsCost(costCall.result.pricing.input)
        /\ costCall.result.output = 0

\* gpt-4o at 2.5 dollars per million input tokens
C13_Witness ==
    /\ C13_Case
    /\ costCall.model = "gpt-4o"
    /\ costCall.result.pricing = getModelPricingFromDefinitions("gpt-4o")
    /\ costCall.result.total = 250000000

(***************************************************************************)
(* Claims about credential resolution (SpecCred).                          *)
(***************************************************************************)
WithBYOKDone == credCall.op = "getApiKeyWithBYOK"

InHostedAllowList(model) ==
    toLowerCase(model) \in {toLowerCase(getHostedModels[i]) : i \in 1..Len(getHostedModels)}

\* the request of C2: hosted deployment, one of the three providers, a hosted
\* model, a workspace whose key is stored and can be read, a working pool
C2_Case ==
    /\ WithBYOKDone
    /\ isHosted
    /\ credCall.provider \in {"openai", "anthropic", "google"}
    /\ InHostedAllowList(credCall.model)
    /\ credCall.workspaceId \in Workspaces
    /\ <<credCall.workspaceId, credCall.provider>> \in byokRows
    /\ dbUp /\ decryptOk
    /\ poolOk

C2_ReturnsBYOK ==
    /\ ~credCall.result.threw
    /\ credCall.result.isBYOK
    /\ credCall.result.apiKey = <<"byok", credCall.workspaceId, credCall.provider>>

\* the model is taken by one of the sentinel tiers that come first
TakenBySentinelTier(prov, model) ==
    \/ prov \in {"ollama", "vllm", "bedrock"}
    \/ model \in storeOllama
    \/ model \in storeVllm
    \/ startsWith(model, BedrockPrefix)

\* C2 as stated: in that case the BYOK key is returned with isBYOK = true,
\* whatever caller-supplied key is passed.
C2_Original == C2_Case => C2_ReturnsBYOK

\* C2 amended: the same, for a model that is in neither the ollama nor the
\* vllm model list of the providers store and does not start with "bedrock/".
C2_BYOKPrecedence ==
    (C2_Case /\ ~TakenBySentinelTier(credCall.provider, credCall.model)) => C2_ReturnsBYOK

C2_Witness ==
    /\ C2_Case
    /\ ~TakenBySentinelTier(credCall.provider, credCall.model)
    /\ credCall.userProvidedKey = UserKey
    /\ credCall.result.apiKey = <<"byok", credCall.workspaceId, credCall.provider>>

\* the BYOK lookup of the call is reached and fails with an exception
C6_LookupReached ==
    /\ WithBYOKDone
    /\ ~TakenBySentinelTier(credCall.provider, credCall.model)
    /\ \/ isHosted /\ credCall.provider \in BYOKProviderIds
       \/ isServerKeysEnabled /\ credCall.provider = "anthropic"
    /\ credCall.workspaceId \in Workspaces
    /\ InHostedAllowList(credCall.model) \/ credCall.provider = "mistral"

C6_LookupRaises ==
    \/ ~dbUp
    \/ <<credCall.workspaceId, credCall.provider>> \in byokRows /\ ~decryptOk

MissingCredentialFor(result, prov, model) ==
    /\ result.threw
    /\ Len(result.error) = 3
    /\ result.error[2] = prov
    /\ result.error[3] = model

\* C6 as stated: when the BYOK lookup raises an unexpected exception the call
\* fails with a missing-credential error naming provider and model, and returns
\* neither the rotating server key nor the caller-supplied key.
C6_Original ==
    (C6_LookupReached /\ C6_LookupRaises)
    => MissingCredentialFor(credCall.result, credCall.provider, credCall.model)

\* C6 amended: an exception of the BYOK lookup (query or decryption) is caught and
\* counts as "no BYOK key"; for a hosted model the call then takes the rotating
\* server key, on a failing pool the caller's key, and only without one fails with
\* the missing-credential error naming provider and model; for a mistral model
\* outside the allow-list it takes the caller's key or fails in the same way.
C6_LookupFailureFallsThrough ==
    (C6_LookupReached /\ C6_LookupRaises) =>
        LET r == credCall.result
            family == IF credCall.provider = "google" THEN "gemini" ELSE credCall.provider
        IN  /\ ~r.isBYOK
            /\ IF InHostedAllowList(credCall.model) /\ poolOk
               THEN ~r.threw /\ r.apiKey = <<"server", family>>
               ELSE IF truthy(credCall.userProvidedKey)
               THEN ~r.threw /\ r.apiKey = credCall.userProvidedKey
               ELSE MissingCredentialFor(r, credCall.provider, credCall.model)

C6_Witness ==
    /\ C6_LookupReached
    /\ ~dbUp
    /\ poolOk
    /\ InHostedAllowList(credCall.model)
    /\ credCall.result.apiKey = <<"server", credCall.provider>>

CredDone == credCall.op \in {"getApiKeyWithBYOK", "getApiKey"}

\* the deployment and provider of the hosted tier
HostedDeploymentFor(prov) ==
    \/ isHosted /\ prov \in {"openai", "anthropic", "google"}
    \/ isServerKeysEnabled /\ prov = "anthropic"

\* the BYOK lookup of the call, if it makes one, yields a key
BYOKKeyFound ==
    /\ credCall.op = "getApiKeyWithBYOK"
    /\ credCall.workspaceId \in Workspaces
    /\ <<credCall.workspaceId, credCall.provider>> \in byokRows
    /\ dbUp /\ decryptOk

RotatingFamily == IF credCall.provider = "google" THEN "gemini" ELSE credCall.provider

\* the hosted tier of the claims: past the sentinel tiers, a hosted deployment (or
\* server keys for anthropic) and a model of the allow-list, without a BYOK key
C18_Case ==
    /\ CredDone
    /\ ~TakenBySentinelTier(credCall.provider, credCall.model)
    /\ HostedDeploymentFor(credCall.provider)
    /\ InHostedAllowList(credCall.model)
    /\ ~BYOKKeyFound

\* C18: in that case, with a functioning pool, the key is the rotating server key,
\* with or without a workspaceId and whatever the caller's key is.
C18_ServerKeyWithoutBYOK ==
    (C18_Case /\ poolOk) =>
        /\ ~credCall.result.threw
        /\ credCall.result.apiKey = <<"server", RotatingFamily>>

\* the same for the requests C18 holds for: getApiKey, and getApiKeyWithBYOK with
\* a workspaceId
C18_WithWorkspace ==
    (/\ C18_Case /\ poolOk
     /\ credCall.op = "getApiKeyWithBYOK" => credCall.workspaceId \in Workspaces) =>
        /\ ~credCall.result.threw
        /\ credCall.result.apiKey = <<"server", RotatingFamily>>

\* a key that is present and not the empty string
NonEmptyKey(key) == key \notin {Undefined, EmptyString}

CallerKeyOrMissingCredential ==
    IF NonEmptyKey(credCall.userProvidedKey)
    THEN /\ ~credCall.result.threw
         /\ credCall.result.apiKey = credCall.userProvidedKey
         /\ ~credCall.result.isBYOK
    ELSE MissingCredentialFor(credCall.result, credCall.provider, credCall.model)

\* C19: in the case of C18 with a failing pool, the caller's key is returned if one
\* was passed, otherwise the call fails with the missing-credential error; no empty
\* or undefined key is returned.
C19_PoolFailureFallsBackToCallerKey ==
    (C18_Case /\ ~poolOk) =>
        /\ CallerKeyOrMissingCredential
        /\ ~credCall.result.threw => NonEmptyKey(credCall.result.apiKey)

\* the pool was asked and failed, and the caller's key came back
C19_Witness ==
    /\ C18_Case /\ ~poolOk
    /\ credCall.op = "getApiKeyWithBYOK"
    /\ credCall.result.poolAsked
    /\ credCall.userProvidedKey = UserKey
    /\ credCall.result.apiKey = UserKey

\* a request of none of the local, vendor-native and hosted tiers
C20_Case ==
    /\ CredDone
    /\ ~TakenBySentinelTier(credCall.provider, credCall.model)
    /\ ~(InHostedAllowList(credCall.model)
         /\ (isHosted \/ (isServerKeysEnabled /\ credCall.provider = "anthropic")))

\* C20 as stated: such a request gets exactly the caller's key when it is not
\* empty and the missing-credential error otherwise; the pool is not consulted.
C20_Original ==
    C20_Case => (CallerKeyOrMissingCredential /\ ~credCall.result.poolAsked)

\* the mistral request of the hosted deployment whose workspace has a stored,
\* decryptable mistral key
MistralBYOK ==
    /\ isHosted
    /\ credCall.provider = "mistral"
    /\ BYOKKeyFound

\* C20 amended: the same, except that the mistral request of a hosted deployment
\* whose workspace has a stored BYOK key gets that key, with isBYOK = true.
C20_CallerKeyRequired ==
    C20_Case =>
        /\ ~credCall.result.poolAsked
        /\ IF MistralBYOK
           THEN /\ ~credCall.result.threw
                /\ credCall.result.isBYOK
                /\ credCall.result.apiKey = <<"byok", credCall.workspaceId, "mistral">>
           ELSE CallerKeyOrMissingCredential

\* a hosted deployment, a model outside the allow-list, an empty caller key
C20_Witness ==
    /\ C20_Case
    /\ isHosted
    /\ credCall.provider = "openai"
    /\ credCall.userProvidedKey = EmptyString
    /\ MissingCredentialFor(credCall.result, "openai", credCall.model)

OllamaTier == credCall.provider = "ollama" \/ credCall.model \in storeOllama
VllmTier == credCall.provider = "vllm" \/ credCall.model \in storeVllm
BedrockTier == credCall.provider = "bedrock" \/ startsWith(credCall.model, BedrockPrefix)

\* the call returned this key without a BYOK lookup and without asking the pool
SentinelReturned(key) ==
    /\ ~credCall.result.threw
    /\ credCall.result.apiKey = key
    /\ ~credCall.result.isBYOK
    /\ ~credCall.result.byokQueried
    /\ ~credCall.result.poolAsked

CallerKeyOrEmpty ==
    IF NonEmptyKey(credCall.userProvidedKey) THEN credCall.userProvidedKey ELSE <<"empty">>

\* C21 as stated: ollama (provider or listed model) yields 'empty', vllm (provider
\* or listed model) the caller's key or 'empty', bedrock outside the local tiers
\* the vendor-native sentinel; no BYOK lookup, no pool, in every deployment mode.
C21_Original ==
    CredDone =>
        /\ OllamaTier => SentinelReturned(<<"empty">>)
        /\ VllmTier => SentinelReturned(CallerKeyOrEmpty)
        /\ (BedrockTier /\ ~OllamaTier /\ ~VllmTier)
              => SentinelReturned(<<"bedrock-uses-own-credentials">>)

\* C21 amended: the same, the vllm tier applying only to a request the ollama tier
\* does not match.
C21_SentinelTiersWin ==
    CredDone =>
        /\ OllamaTier => SentinelReturned(<<"empty">>)
        /\ (VllmTier /\ ~OllamaTier) => SentinelReturned(CallerKeyOrEmpty)
        /\ (BedrockTier /\ ~OllamaTier /\ ~VllmTier)
              => SentinelReturned(<<"bedrock-uses-own-credentials">>)

\* hosted deployment, a stored workspace key and a working pool: a model of the
\* ollama list still gets 'empty', the caller's key ignored
C21_Witness ==
    /\ credCall.op = "getApiKeyWithBYOK"
    /\ isHosted /\ poolOk /\ dbUp /\ decryptOk
    /\ credCall.provider = "openai"
    /\ credCall.model \in storeOllama
    /\ <<credCall.workspaceId, credCall.provider>> \in byokRows
    /\ credCall.userProvidedKey = UserKey
    /\ SentinelReturned(<<"empty">>)

(***************************************************************************)
(* Claims about the model resolver (SpecResolve).                          *)
(***************************************************************************)
ResolveDone == resCall.op = "getProviderFromModel"

NoBlacklist == blProviders = {} /\ blModels = {}

\* the catalog of the i-th provider lists the name, in some letter case
Lists(i, name) ==
    \E j \in 1..Len(modelsOf(ProviderOrder[i])) :
        toLowerCase(modelsOf(ProviderOrder[i])[j]) = toLowerCase(name)

\* no provider registered after the i-th lists the name
LastToList(i, name) ==
    Lists(i, name) /\ \A k \in (i + 1)..Len(ProviderOrder) : ~Lists(k, name)

ResolvedTo(providerId) == ~resCall.result.threw /\ resCall.result.providerId = providerId

FirstToList(i, name) ==
    Lists(i, name) /\ \A k \in 1..(i - 1) : ~Lists(k, name)

ListedNames ==
    UNION {{toLowerCase(modelsOf(p)[j]) : j \in 1..Len(modelsOf(p))} : p \in Range(ProviderOrder)}

\* C22: the exact-match index gives every listed name, in lowercase, to the first
\* provider in registration order that lists it, and holds no name that no
\* provider's model list enumerates.
C22_FirstRegistrationWins ==
    /\ DOMAIN getAllModelProviders = ListedNames
    /\ \A i \in 1..Len(ProviderOrder) : \A name \in ListedNames :
           FirstToList(i, name) => getAllModelProviders[name] = ProviderOrder[i]

BlacklistedProvider(providerId) ==
    \E e \in blProviders : toLowerCaseId(e) = providerId

ProviderUnavailable(providerId) ==
    /\ resCall.result.threw
    /\ resCall.result.error = <<"Provider is not available", providerId>>

ModelUnavailable ==
    /\ resCall.result.threw
    /\ resCall.result.error = <<"Model is not available", resCall.model>>

PrefixRules ==
    {SubSeq(toLowerCase(trim(e)), 1, Len(trim(e)) - 1) :
        e \in {x \in blModels : trim(x) # <<>> /\ trim(x)[Len(trim(x))] = "*"}}

HasPrefix(name, prefix) ==
    /\ Len(name) >= Len(prefix)
    /\ \A i \in 1..Len(prefix) : toLowerCase(name)[i] = prefix[i]

\* C9 as stated: an entry "p*" makes the call fail with the model-unavailable error
\* for every name whose lowercase form starts with p.
C9_Original ==
    ResolveDone =>
        \A prefix \in PrefixRules : HasPrefix(resCall.model, prefix) => ModelUnavailable

\* C9 amended: an entry "p*" makes the call fail for every name whose lowercase form
\* starts with lowercase p, with the model-unavailable error unless the resolved
\* provider is blacklisted (then the provider-unavailable error is raised first);
\* a name that does not start with p is not rejected by that entry.
C9_PrefixRule ==
    ResolveDone =>
        /\ \A prefix \in PrefixRules :
              HasPrefix(resCall.model, prefix) =>
                  \/ ModelUnavailable
                  \/ \E id \in {ProviderOrder[i] : i \in 1..Len(ProviderOrder)} :
                        BlacklistedProvider(id) /\ ProviderUnavailable(id)
        /\ (/\ \A e \in blModels : trim(e) # <<>> /\ trim(e)[Len(trim(e))] = "*"
            /\ \A prefix \in PrefixRules : ~HasPrefix(resCall.model, prefix))
           => ~ModelUnavailable

\* "Claude-3-Opus" against the entry "claude-*"
C9_Witness ==
    /\ ResolveDone
    /\ blModels = {<<"c", "-", "*">>}
    /\ resCall.model = <<"C", "-", "M">>
    /\ ModelUnavailable

\* "my-claude-3-opus" against the entry "claude-*"
C9_WitnessNotRejected ==
    /\ ResolveDone
    /\ blModels = {<<"c", "-", "*">>}
    /\ resCall.model = MyClaude
    /\ ~resCall.result.threw

\* the name is in no provider's model list and no provider's pattern matches it
Unmatched(name) ==
    /\ toLowerCase(name) \notin ListedNames
    /\ \A p \in Range(ProviderOrder) : \A k \in 1..Len(modelPatterns(p)) :
           ~HasPrefix(name, modelPatterns(p)[k])

\* a model blacklist entry names the name, or an entry "p*" a prefix of it
ModelRuleApplies(name) ==
    \/ \E e \in blModels : toLowerCase(trim(e)) = toLowerCase(name)
    \/ \E prefix \in PrefixRules : HasPrefix(name, prefix)

\* C23: a name that matches no catalog entry and no pattern fails with the
\* provider-unavailable error when ollama is blacklisted (a model rule applying or
\* not), else with the model-unavailable error when a model rule applies, and
\* else resolves to ollama.
C23_FallbackAfterBlacklist ==
    (ResolveDone /\ Unmatched(resCall.model)) =>
        /\ BlacklistedProvider("ollama") => ProviderUnavailable("ollama")
        /\ (~BlacklistedProvider("ollama") /\ ModelRuleApplies(resCall.model))
              => ModelUnavailable
        /\ (~BlacklistedProvider("ollama") /\ ~ModelRuleApplies(resCall.model))
              => ResolvedTo("ollama")

\* both rules apply to an unmatched name: the provider error is raised
C23_Witness ==
    /\ ResolveDone /\ Unmatched(resCall.model)
    /\ blProviders = {"OLLAMA"}
    /\ blModels = {<<"m", "*">>}
    /\ resCall.model = MyClaude
    /\ ProviderUnavailable("ollama")

\* an unmatched name with no rule against it falls back to ollama
C23_WitnessFallback ==
    /\ ResolveDone /\ Unmatched(resCall.model)
    /\ blModels = {<<"m", "*">>}
    /\ resCall.model = <<"x">>
    /\ ResolvedTo("ollama")

(***************************************************************************)
(* Claims about the refresh of the registry (SpecRefresh).                 *)
(***************************************************************************)
RegistryAgrees ==
    \A id \in DynamicProviders :
        modelsOf(id) = getProviderModelsFromDefinitions(definitionModels, id)

TrackDone == trackCall.op = "trackForcedToolUsage"

ForcedList == policy.result.forcedTools

Distinct(list) == \A i, j \in 1..Len(list) : list[i] = list[j] => i = j

IsPrefix(p, list) == Len(p) <= Len(list) /\ \A i \in 1..Len(p) : p[i] = list[i]

\* the names a choice or config forces
NamesForcedBy(choice) ==
    CASE choice.type = "config" -> Range(choice.allowed)
      [] choice.type \in {"tool", "function"} -> {choice.name}
      [] OTHER -> {}

Invoked(response) == IF response = Undefined THEN {} ELSE Range(response)

\* the choice that forces one tool, and the one that forces none, by family
Forcing(prov, name) == IF prov = "anthropic" THEN ToolNameChoice(name) ELSE FunctionChoice(name)
Unforced(prov) == IF prov = "anthropic" THEN NullChoice ELSE AutoChoice

\* C3: tool-name and function-call families, distinct forced ids t1..tn: a turn
\* whose response invokes the currently forced tool tk returns the used list
\* t1..tk and a next choice that forces t(k+1), or auto (null for anthropic) after tn.
C3_SequentialCycle ==
    (/\ TrackDone
     /\ provider # "google"
     /\ Distinct(ForcedList)
     /\ NamesForcedBy(trackCall.originalToolChoice) \cap Invoked(trackCall.toolCallsResponse) # {})
    => LET r == trackCall.result
           k == Len(trackCall.usedForcedTools) + 1
       IN  /\ k <= Len(ForcedList)
           /\ NamesForcedBy(trackCall.originalToolChoice) = {ForcedList[k]}
           /\ r.hasUsedForcedTool
           /\ r.usedForcedTools = SubSeq(ForcedList, 1, k)
           /\ r.nextToolChoice = IF k < Len(ForcedList)
                                 THEN Forcing(provider, ForcedList[k + 1])
                                 ELSE Unforced(provider)

\* forced [A, B], anthropic: the turn that invokes B, after the one that invoked A
C3_Witness ==
    /\ TrackDone
    /\ provider = "anthropic"
    /\ ForcedList = <<"A", "B">>
    /\ trackCall.usedForcedTools = <<"A">>
    /\ trackCall.originalToolChoice = ToolNameChoice("B")
    /\ trackCall.result.usedForcedTools = <<"A", "B">>
    /\ trackCall.result.nextToolChoice = NullChoice

\* the forcing directive a call returns: nextToolConfig for google (whose
\* nextToolChoice repeats the argument), nextToolChoice for the others
Directive(prov, result) ==
    IF prov = "google" THEN result.nextToolConfig ELSE result.nextToolChoice

\* C4: the used list a call returns extends the one it was given, and no id of the
\* used list is forced by the next choice or allow-list, duplicates in forcedTools
\* included.
C4_UsedGrowsNeverForcedAgain ==
    TrackDone =>
        /\ IsPrefix(trackCall.usedForcedTools, trackCall.result.usedForcedTools)
        /\ Range(trackCall.result.usedForcedTools)
              \cap NamesForcedBy(Directive(provider, trackCall.result)) = {}
        /\ Range(usedForcedTools) \cap NamesForcedBy(toolChoice) = {}

\* an id listed twice among the forced tools, used once, and another still forced
C4_Witness ==
    /\ TrackDone
    /\ ForcedList = <<"A", "B", "A">>
    /\ trackCall.result.hasUsedForcedTool
    /\ usedForcedTools = <<"A">>
    /\ NamesForcedBy(toolChoice) = {"B"}

\* C5: a response that invokes none of the currently forced names leaves
\* everything as it was: hasUsedForcedTool false, the used list and the tool choice
\* (for google also the tool config) those of the call.
C5_UnsatisfiedTurnUnchanged ==
    (/\ TrackDone
     /\ NamesForcedBy(trackCall.originalToolChoice) \cap Invoked(trackCall.toolCallsResponse) = {})
    => /\ ~trackCall.result.hasUsedForcedTool
       /\ trackCall.result.usedForcedTools = trackCall.usedForcedTools
       /\ trackCall.result.nextToolChoice = trackCall.originalToolChoice
       /\ provider = "google" => trackCall.result.nextToolConfig = trackCall.originalToolChoice

\* google: two tools allowed, the response calls a third
C5_Witness ==
    /\ TrackDone
    /\ provider = "google"
    /\ NamesForcedBy(trackCall.originalToolChoice) = {"A", "B"}
    /\ trackCall.toolCallsResponse = <<"C">>
    /\ trackCall.result.nextToolConfig = trackCall.originalToolChoice

\* the tools the code filters out: those whose (first) descriptor says none
NoneToolIds == {id \in Range(tools) : usageControlOf(providerTools, id) = "none"}

ActiveInInputOrder ==
    policy.result.tools = SelectSeq(tools, LAMBDA id : id \notin NoneToolIds)

NoneToolAbsentFromCycle ==
    NoneToolIds \cap (Range(policy.result.forcedTools)
                      \cup NamesForcedBy(policy.result.toolChoice)
                      \cup NamesForcedBy(policy.result.toolConfig)
                      \cup NamesForcedBy(toolChoice)
                      \cup Range(usedForcedTools)) = {}

\* C12: the active tool list is the auto and force tools in input order, without
\* the none tools, and the id of a none tool is never in forcedTools, in a tool
\* choice or in the used list of the turns threaded from that policy.
C12_NoneToolNeverReappears ==
    policy # NoCall => (ActiveInInputOrder /\ NoneToolAbsentFromCycle)

\* the same, for descriptor lists that name every tool once
C12_DistinctIds ==
    (policy # NoCall /\ Distinct(idsOf(providerTools)))
    => (ActiveInInputOrder /\ NoneToolAbsentFromCycle)

PolicyDone == policy.op = "prepareToolsWithUsageControl"

\* the ids of the descriptors with usageControl force, in descriptor order
ForceDescriptorIds ==
    LET idx == {i \in 1..Len(providerTools) : providerTools[i].usageControl = "force"}
        nth[k \in 0..Len(providerTools)] ==
            IF k = 0 THEN 0 ELSE CHOOSE i \in idx : i > nth[k - 1] /\ \A j \in idx : j > nth[k - 1] => i <= j
    IN  [k \in 1..Cardinality(idx) |-> providerTools[nth[k]].id]

\* C24: with a non-empty active tool list the returned forcedTools is F, the forced
\* ids in descriptor order, and the choice depends on the provider and F only:
\* {type tool, name F[1]} for anthropic, toolChoice auto with toolConfig {ANY, F} for
\* google, {type function, name F[1]} for the others; with F empty, auto for all and
\* toolConfig {AUTO} without allow-list for google.
C24_ToolChoiceByFamily ==
    (PolicyDone /\ policy.result.tools # <<>>) =>
        LET F == ForceDescriptorIds
            r == policy.result
        IN  /\ r.forcedTools = F
            /\ (F # <<>> /\ provider = "anthropic")
                  => (r.toolChoice = ToolNameChoice(F[1]) /\ r.toolConfig = UndefinedChoice)
            /\ (F # <<>> /\ provider = "google")
                  => (/\ r.toolChoice = AutoChoice
                      /\ r.toolConfig = FunctionCallingConfig("ANY", F))
            /\ (F # <<>> /\ provider \notin {"anthropic", "google"})
                  => (r.toolChoice = FunctionChoice(F[1]) /\ r.toolConfig = UndefinedChoice)
            /\ F = <<>>
                  => (/\ r.toolChoice = AutoChoice
                      /\ r.toolConfig = IF provider = "google"
                                        THEN FunctionCallingConfig("AUTO", <<>>)
                                        ELSE UndefinedChoice)

\* google with two forced tools among three active ones
C24_Witness ==
    /\ PolicyDone
    /\ provider = "google"
    /\ policy.result.tools = <<"A", "B", "C">>
    /\ ForceDescriptorIds = <<"B", "C">>
    /\ policy.result.toolConfig = FunctionCallingConfig("ANY", <<"B", "C">>)

\* forcedTools minus the used list the call returns, in forcedTools order
RemainingAfter ==
    SelectSeq(ForcedList, LAMBDA t : t \notin Range(trackCall.result.usedForcedTools))

\* C25: after a satisfied turn with a non-empty remaining list R the directive is
\* {type tool, name R[1]} for anthropic, nextToolConfig {ANY, R} for google and
\* {type function, name R[1]} for the others, which is what
\* prepareToolsWithUsageControl builds for the forced list R.
C25_NextDirectiveEncodesRemaining ==
    (TrackDone /\ trackCall.result.hasUsedForcedTool /\ RemainingAfter # <<>>) =>
        LET R == RemainingAfter
            d == Directive(provider, trackCall.result)
            built == forcedToolChoice(provider, R)
        IN  /\ provider = "anthropic" => d = ToolNameChoice(R[1])
            /\ provider = "google" => d = FunctionCallingConfig("ANY", R)
            /\ provider \notin {"anthropic", "google"} => d = FunctionChoice(R[1])
            /\ d = IF provider = "google" THEN built.toolConfig ELSE built.toolChoice

\* anthropic, forced [A, B, C]: the turn that invokes A leaves B and C, B forced next
C25_Witness ==
    /\ TrackDone
    /\ provider = "anthropic"
    /\ ForcedList = <<"A", "B", "C">>
    /\ trackCall.result.hasUsedForcedTool
    /\ RemainingAfter = <<"B", "C">>
    /\ trackCall.result.nextToolChoice = ToolNameChoice("B")

\* C27: every id of the returned forcedTools, and every name of the returned tool
\* choice or allow-list, is the id of a tool of the returned active tools list.
C27_ForcedToolsAreActive ==
    PolicyDone =>
        LET r == policy.result
        IN  Range(r.forcedTools) \cup NamesForcedBy(r.toolChoice) \cup NamesForcedBy(r.toolConfig)
                \subseteq Range(r.tools)

UsedOnlyForcedIds == PolicyDone => Range(usedForcedTools) \subseteq Range(ForcedList)

\* C28: from the empty used list and the choice prepareToolsWithUsageControl built,
\* after any sequence of trackForcedToolUsage calls the used list holds no id twice
\* and only ids of forcedTools.
C28_UsedListIsASet ==
    PolicyDone => (Distinct(usedForcedTools) /\ Range(usedForcedTools) \subseteq Range(ForcedList))

\* the same for the tool-name and function-call families, and for google when no id
\* is listed twice among the force descriptors
C28_DistinctOrSingleName ==
    (PolicyDone /\ (provider # "google" \/ Distinct(ForcedList))) => Distinct(usedForcedTools)

\* the choice threaded to the next turn forces no tool
NothingForced == NamesForcedBy(toolChoice) = {}

\* C29: while every turn with a forced tool invoked a forced tool, no more turns
\* were made with a tool forced than there are distinct forced tools, and after
\* that many the choice forces nothing; once nothing is forced, a later
\* trackForcedToolUsage call leaves the choice and the used list as they are.
C29_AutoWithinNTurns ==
    /\ []((PolicyDone /\ policy.result.hasTools /\ ~turns.missed) =>
            /\ turns.forced <= Cardinality(Range(ForcedList))
            /\ turns.forced = Cardinality(Range(ForcedList)) =>
                  (NothingForced /\ toolChoice.type \in {"auto", "null", "config"}
                   /\ toolChoice.mode \in {"", "AUTO"}))
    /\ [][(PolicyDone /\ NothingForced) =>
            (toolChoice' = toolChoice /\ usedForcedTools' = usedForcedTools)]_vars

\* three forced tools, each invoked in its turn: nothing is forced after the third
C29_Witness ==
    /\ TrackDone
    /\ provider = "openai"
    /\ ForcedList = <<"A", "B", "C">>
    /\ turns = [forced |-> 3, missed |-> FALSE]
    /\ toolChoice = AutoChoice
    /\ usedForcedTools = <<"A", "B", "C">>

\* the forced tools the response invoked that the prior choice did not name
InvokedOutOfTurn ==
    (Invoked(trackCall.toolCallsResponse) \cap Range(ForcedList))
        \ NamesForcedBy(trackCall.originalToolChoice)

\* C30: a forced tool the response invokes while the prior choice does not name it
\* is not added to the used list; when it was not used before it stays among the
\* remaining forced tools and the next directive still forces a tool, and the
\* choice never stops forcing while a forced tool is missing from the used list.
C30_OnlyForcedNamesCount ==
    /\ TrackDone =>
          \A t \in InvokedOutOfTurn :
              /\ t \in Range(trackCall.result.usedForcedTools)
                    <=> t \in Range(trackCall.usedForcedTools)
              /\ t \notin Range(trackCall.usedForcedTools) =>
                    /\ t \in Range(RemainingAfter)
                    /\ NamesForcedBy(Directive(provider, trackCall.result)) # {}
    /\ (PolicyDone /\ NothingForced) => Range(ForcedList) \subseteq Range(usedForcedTools)

\* forced [A, B], A named by the prior choice, the response invokes A and B: only A
\* is marked used and B is forced next
C30_Witness ==
    /\ TrackDone
    /\ provider = "openai"
    /\ ForcedList = <<"A", "B">>
    /\ trackCall.originalToolChoice = FunctionChoice("A")
    /\ trackCall.toolCallsResponse = <<"A", "B">>
    /\ trackCall.result.usedForcedTools = <<"A">>
    /\ trackCall.result.nextToolChoice = FunctionChoice("B")

(***************************************************************************)
(* Claims about the stream decoder (SpecStream).                           *)
(***************************************************************************)
\* the vendor stream ended and the output stream was closed as a success
EndedNormally == streamPc = "finished"

RECURSIVE NonEmptyDeltas(_)
NonEmptyDeltas(chunks) ==
    IF chunks = <<>> THEN <<>>
    ELSE (IF Head(chunks).content # <<>> THEN <<Head(chunks).content>> ELSE <<>>)
         \o NonEmptyDeltas(Tail(chunks))

RECURSIVE Concat(_)
Concat(deltas) == IF deltas = <<>> THEN <<>> ELSE Head(deltas) \o Concat(Tail(deltas))

EndsWithUsageChunk == taken # <<>> /\ taken[Len(taken)].usage.present

DeltasInOrder ==
    /\ emitted = NonEmptyDeltas(taken)
    /\ Len(completed) = 1
    /\ completed[1].content = Concat(NonEmptyDeltas(taken))

\* C10 as stated: the deltas are emitted in arrival order, onComplete gets their
\* concatenation, and after a final usage chunk the usage of onComplete is that
\* chunk's prompt, completion and total count.
C10_Original ==
    EndedNormally =>
        /\ DeltasInOrder
        /\ EndsWithUsageChunk =>
              /\ completed[1].usage.prompt_tokens = taken[Len(taken)].usage.prompt_tokens
              /\ completed[1].usage.completion_tokens = taken[Len(taken)].usage.completion_tokens
              /\ completed[1].usage.total_tokens = taken[Len(taken)].usage.total_tokens

\* C10 amended: the same, except that the total handed to onComplete is the chunk's
\* total only when that is not 0 (or missing); otherwise it is the sum of the
\* chunk's prompt and completion counts.
C10_DeltasAndUsage ==
    EndedNormally =>
        /\ DeltasInOrder
        /\ EndsWithUsageChunk =>
              LET last == taken[Len(taken)].usage
              IN  /\ completed[1].usage.prompt_tokens = last.prompt_tokens
                  /\ completed[1].usage.completion_tokens = last.completion_tokens
                  /\ completed[1].usage.total_tokens =
                        IF last.total_tokens # 0 THEN last.total_tokens
                        ELSE last.prompt_tokens + last.completion_tokens

\* two deltas around a chunk without content, then the usage chunk
C10_Witness ==
    /\ EndedNormally
    /\ Len(taken) = 3
    /\ emitted = <<(<<"a">>), (<<"b", "c">>)>>
    /\ completed[1].content = <<"a", "b", "c">>
    /\ taken[3].usage = Usage(3, 2, 5)
    /\ taken[3].content = <<>>
    /\ completed[1].usage.total_tokens = 5

\* the vendor stream has ended (normally or not) and start() has returned
VendorEndedNormally == vendor = <<>> /\ ~vendorFails /\ streamPc # "iterating"
VendorFailed == vendor = <<>> /\ vendorFails /\ streamPc # "iterating"

NotCancelled == streamState # "cancelled"

NoUsageChunk == \A i \in 1..Len(taken) : ~taken[i].usage.present

\* C11: a vendor stream that ends normally without any usage chunk still gets
\* onComplete, with prompt, completion and total 0, and the output stream is closed
\* without error.
C11_NoUsageStillCompletes ==
    (VendorEndedNormally /\ NotCancelled /\ NoUsageChunk) =>
        /\ Len(completed) = 1
        /\ completed[1].usage =
              [prompt_tokens |-> 0, completion_tokens |-> 0, total_tokens |-> 0]
        /\ streamState = "closed"
        /\ streamPc = "finished"

\* two deltas and no usage at all
C11_Witness ==
    /\ VendorEndedNormally /\ NotCancelled /\ NoUsageChunk
    /\ Len(emitted) = 2
    /\ Len(completed) = 1
    /\ completed[1].usage.total_tokens = 0
    /\ streamState = "closed"

\* C14: when the iteration of the vendor stream fails after some deltas were
\* emitted, the output stream is errored, never closed as a success, onComplete is
\* not called, and the vendor stream is not iterated again.
C14_FailureErrorsStream ==
    /\ []((VendorFailed /\ NotCancelled /\ emitted # <<>>) =>
            (streamState = "errored" /\ completed = <<>> /\ streamPc = "caught"))
    /\ [][(VendorFailed /\ emitted # <<>>) =>
            (taken' = taken /\ vendor' = vendor /\ streamPc' = streamPc
             /\ completed' = completed /\ streamState' = streamState)]_vars

\* a delta was emitted, then the vendor iterator threw
C14_Witness ==
    /\ VendorFailed /\ NotCancelled
    /\ Len(emitted) >= 1
    /\ Len(taken) >= 2
    /\ streamState = "errored"
    /\ completed = <<>>

\* C15: the decoder respects backpressure: the deltas taken from the vendor and not
\* yet read by the consumer never exceed the one chunk a pulled source would have
\* queued.
C15_Backpressure == Len(emitted) - readCount <= 1

\* C16: once the consumer has cancelled before the vendor stream ended, the decoder
\* takes no further chunk and does not call onComplete.
C16_CancelStopsDecoder ==
    [][streamState = "cancelled" => (taken' = taken /\ completed' = completed)]_vars

\* the loop ran to the end of the vendor stream: it neither threw nor was left early
LoopRanToEnd == VendorEndedNormally /\ ~released

\* C26: onComplete is called at most once, and only when the vendor stream has
\* ended normally; it is called in the step that ends the loop, with every content
\* delta already enqueued and the output stream not yet closed, and a readable
\* stream is closed after it; once the loop has run to the end of the vendor stream
\* it has been called exactly once.
C26_OnCompleteOnce ==
    /\ [](/\ Len(completed) <= 1
          /\ completed # <<>> => (vendor = <<>> /\ ~vendorFails /\ ~released)
          /\ LoopRanToEnd => Len(completed) = 1)
    /\ [][completed' # completed =>
            (/\ completed = <<>> /\ Len(completed') = 1
             /\ streamPc = "iterating" /\ streamPc' # "iterating"
             /\ vendor = <<>> /\ ~vendorFails
             /\ emitted = NonEmptyDeltas(taken) /\ emitted' = emitted /\ taken' = taken
             /\ streamState # "closed"
             /\ streamState = "readable" => streamState' = "closed")]_vars

\* three chunks, two of them with content: one call, then the stream is closed
C26_Witness ==
    /\ LoopRanToEnd
    /\ Len(taken) = 3
    /\ Len(emitted) = 2
    /\ Len(completed) = 1
    /\ streamState = "closed"

====
